---------------------------- MODULE Spec2Model ----------------------------
(***************************************************************************)
(* Khaos Blender scripts: skeleton authoring (skeleton_generator_clean.py, *)
(* blender_character_generator.py) and the bone-to-geometry mesh fitter    *)
(* (mesh_auto_fit.py).                                                     *)
(*                                                                         *)
(* Coordinates are integers in units of 1/Unit of a Blender unit (the      *)
(* source writes every coordinate with at most four decimals).  Derived    *)
(* quantities (midpoints, directions, rotation matrices) are exact         *)
(* rationals <<numerator, denominator>>.  A square root is taken exactly;  *)
(* the geometry of a fitted primitive is therefore evaluated only for      *)
(* bones whose length and whose projection on the XY plane are rational    *)
(* (ExactBone), which is how the fitting specification draws its bones.    *)
(***************************************************************************)
EXTENDS Integers, Sequences, FiniteSets, TLC

VARIABLES
    pc,            \* position of the running script
    call,          \* arguments of the add_bone call executed last (NoCall before)
    bones,         \* the armature's bones, in creation order
    bones_dict,    \* SkeletonGenerator/CharacterBuilder.bones_dict: requested name -> bone name
    has_armature,  \* whether bpy.data.objects holds an ARMATURE object
    matrix_world,  \* the armature object's world transform (scale, then translation)
    found,         \* MeshAutoFitter.armature is set (find_armature succeeded)
    objects,       \* the MESH objects of bpy.data.objects: id -> object
    next_id,       \* identity given to the next created object
    mesh_parts,    \* MeshAutoFitter.mesh_parts: references (ids) in append order
    unified,       \* the object join_meshes returned in the current run (0: none)
    materials,     \* number of materials in bpy.data.materials (a mesh holds the number of its material, 0: none)
    raised,        \* the exception that ended the running script (None while it runs)
    runs,          \* number of generate() calls started so far
    active_object, \* bpy.context.active_object when it is a mesh: its id (0: no mesh is active)
    fitting,       \* fitting calls run side by side: per call its rule, position and mesh_obj
    printed        \* the add_bone calls analyze_armature has printed, in order

vars == <<pc, call, bones, bones_dict, has_armature, matrix_world, found,
          objects, next_id, mesh_parts, unified, materials, raised, runs,
          active_object, fitting, printed>>

None == "<None>"

(***************************************************************************)
(* Bounds of the model.                                                    *)
(***************************************************************************)
MaxBones == 3      \* add_bone calls in the free authoring specification
MaxCoord == 4      \* bone vectors of the fitting specification: components in -MaxCoord..MaxCoord
MaxRuns  == 2      \* generate() calls in one behaviour

Unit == 10000      \* model units per Blender unit

(***************************************************************************)
(* Exact arithmetic on rationals <<n, d>>, d > 0, in lowest terms.         *)
(***************************************************************************)
Abs(x) == IF x < 0 THEN -x ELSE x

RECURSIVE Gcd(_, _)
Gcd(a, b) == IF b = 0 THEN a ELSE Gcd(b, a % b)

Rat(n, d) ==
    LET g == Gcd(Abs(n), Abs(d))
        s == IF d < 0 THEN -1 ELSE 1
    IN  <<(s * n) \div g, (s * d) \div g>>

RInt(n)    == <<n, 1>>
RAdd(a, b) ==
    IF a[2] = b[2] THEN Rat(a[1] + b[1], a[2])
    ELSE LET g == Gcd(a[2], b[2])
         IN  Rat(a[1] * (b[2] \div g) + b[1] * (a[2] \div g), (a[2] \div g) * b[2])
RNeg(a)    == <<-a[1], a[2]>>
RSub(a, b) == RAdd(a, RNeg(b))
RMul(a, b) ==
    IF a[1] = 0 \/ b[1] = 0 THEN RInt(0)
    ELSE LET g1 == Gcd(Abs(a[1]), b[2])
             g2 == Gcd(Abs(b[1]), a[2])
         IN  Rat((a[1] \div g1) * (b[1] \div g2), (a[2] \div g2) * (b[2] \div g1))
RDiv(a, b) == IF b[1] < 0 THEN RMul(a, <<-b[2], -b[1]>>) ELSE RMul(a, <<b[2], b[1]>>)
RLt(a, b)  ==
    IF a[2] = b[2] THEN a[1] < b[1]
    ELSE LET g == Gcd(a[2], b[2])
         IN  a[1] * (b[2] \div g) < b[1] * (a[2] \div g)

\* Largest r with r * r <= n, by bisection.
RECURSIVE ISqrtIn(_, _, _)
ISqrtIn(n, lo, hi) ==
    IF lo >= hi THEN lo
    ELSE LET mid == (lo + hi + 1) \div 2
         IN  IF mid <= n \div mid THEN ISqrtIn(n, mid, hi) ELSE ISqrtIn(n, lo, mid - 1)

ISqrt(n) == IF n = 0 THEN 0 ELSE ISqrtIn(n, 1, IF n < 46340 THEN n ELSE 46340)

IsSquare(n) == n >= 0 /\ ISqrt(n) * ISqrt(n) = n

RIsSquare(a) == IsSquare(a[1]) /\ IsSquare(a[2])

\* math.sqrt on a rational that has a rational root.
RSqrt(a) == IF a[1] = 0 THEN RInt(0) ELSE <<ISqrt(a[1]), ISqrt(a[2])>>

(***************************************************************************)
(* mathutils.Vector over the rationals.                                    *)
(***************************************************************************)
Vec(v)        == <<RInt(v[1]), RInt(v[2]), RInt(v[3])>>
VAdd(a, b)    == <<RAdd(a[1], b[1]), RAdd(a[2], b[2]), RAdd(a[3], b[3])>>
VSub(a, b)    == <<RSub(a[1], b[1]), RSub(a[2], b[2]), RSub(a[3], b[3])>>
VScale(a, k)  == <<RMul(a[1], k), RMul(a[2], k), RMul(a[3], k)>>
VDivide(a, k) == <<RDiv(a[1], k), RDiv(a[2], k), RDiv(a[3], k)>>
VDot(a, b)    == RAdd(RAdd(RMul(a[1], b[1]), RMul(a[2], b[2])), RMul(a[3], b[3]))
VCross(a, b)  == <<RSub(RMul(a[2], b[3]), RMul(a[3], b[2])),
                   RSub(RMul(a[3], b[1]), RMul(a[1], b[3])),
                   RSub(RMul(a[1], b[2]), RMul(a[2], b[1]))>>
VLength2(a)   == VDot(a, a)
VLength(a)    == RSqrt(VLength2(a))

Zero3 == <<RInt(0), RInt(0), RInt(0)>>

\* Vector.normalized(): a zero vector stays the zero vector (no exception).
VNormalized(a) == IF a = Zero3 THEN Zero3 ELSE VDivide(a, VLength(a))

\* Integer vectors (bone endpoints).
IAdd(a, b) == <<a[1] + b[1], a[2] + b[2], a[3] + b[3]>>
ISub(a, b) == <<a[1] - b[1], a[2] - b[2], a[3] - b[3]>>
\* v * (n / 10) for a vector whose components are multiples of 10 model units.
ITenths(v, n) == <<(v[1] * n) \div 10, (v[2] * n) \div 10, (v[3] * n) \div 10>>

(***************************************************************************)
(* Skeleton model: edit_bones / data.bones as a sequence of bones.         *)
(***************************************************************************)
BoneNames(bs) == {bs[i].name : i \in 1..Len(bs)}

HasBone(bs, name) == name \in BoneNames(bs)

BoneNamed(bs, name) == bs[CHOOSE i \in 1..Len(bs) : bs[i].name = name]

NoCall == [name |-> None, parent_name |-> None, head_pos |-> <<0, 0, 0>>, tail_pos |-> <<0, 0, 0>>]

Call(name, parent_name, head_pos, tail_pos) ==
    [name |-> name, parent_name |-> parent_name, head_pos |-> head_pos, tail_pos |-> tail_pos]

\* edit_bones.new(name): the host makes the name unique by a numeric suffix.
unique_name(bs, name) ==
    LET Suffixes == <<".001", ".002", ".003", ".004", ".005">>
        Free(k)  == ~HasBone(bs, name \o Suffixes[k])
        first    == CHOOSE k \in 1..Len(Suffixes) : Free(k) /\ \A j \in 1..(k - 1) : ~Free(j)
    IN  IF HasBone(bs, name) THEN name \o Suffixes[first] ELSE name

\* add_bone with the parent test dropped: the declared parent is linked
\* whether or not edit_bones holds it.
add_bone_unchecked(bs, c) ==
    Append(bs, [name   |-> unique_name(bs, c.name),
                parent |-> c.parent_name,
                head   |-> c.head_pos,
                tail   |-> c.tail_pos])

\* SkeletonGenerator.add_bone and CharacterBuilder.add_bone (the same code).
\* The membership test runs after edit_bones.new, so the new bone is in
\* edit_bones; the host ignores an assignment that makes a bone its own parent.
add_bone(bs, c) ==
    LET actual  == unique_name(bs, c.name)
        present == HasBone(bs, c.parent_name) \/ c.parent_name = actual
        parent  == IF c.parent_name # None /\ present /\ c.parent_name # actual
                   THEN c.parent_name ELSE None
    IN  Append(bs, [name   |-> actual,
                    parent |-> parent,
                    head   |-> c.head_pos,
                    tail   |-> c.tail_pos])

RECURSIVE Replay(_, _)
Replay(bs, calls) ==
    IF calls = << >> THEN bs ELSE Replay(add_bone(bs, Head(calls)), Tail(calls))

(***************************************************************************)
(* SkeletonGenerator.build_extracted_skeleton: the extracted bone table.   *)
(***************************************************************************)
build_extracted_skeleton == <<
    Call("Root",        None,          <<0, 0, 9000>>,        <<0, 0, 10500>>),
    Call("Spine_01",    "Root",        <<0, 0, 10500>>,       <<0, 0, 12500>>),
    Call("Spine_02",    "Spine_01",    <<0, 0, 12500>>,       <<0, 0, 14500>>),
    Call("Spine_03",    "Spine_02",    <<0, 0, 14500>>,       <<0, 0, 16500>>),
    Call("Neck",        "Spine_03",    <<0, 0, 16500>>,       <<0, 0, 17000>>),
    Call("Head",        "Neck",        <<0, 0, 17000>>,       <<0, 0, 19500>>),
    Call("Shoulder.L",  "Spine_03",    <<-1000, 0, 16132>>,   <<-2541, 72, 16121>>),
    Call("UpperArm.L",  "Shoulder.L",  <<-2541, 72, 16121>>,  <<-2693, 41, 13125>>),
    Call("ForeArm.L",   "UpperArm.L",  <<-2693, 41, 13125>>,  <<-2870, -24, 10131>>),
    Call("Hand.L",      "ForeArm.L",   <<-2870, -24, 10131>>, <<-2921, -34, 9132>>),
    Call("Shoulder.R",  "Spine_03",    <<1000, 0, 16132>>,    <<2579, 109, 16095>>),
    Call("UpperArm.R",  "Shoulder.R",  <<2585, 84, 16096>>,   <<2895, 34, 13112>>),
    Call("ForeArm.R",   "UpperArm.R",  <<2895, 34, 13112>>,   <<3206, -17, 10129>>),
    Call("Hand.R",      "ForeArm.R",   <<3206, -17, 10129>>,  <<3310, -34, 9134>>),
    Call("Thumb_01.L",  "Hand.L",      <<-2982, 259, 9333>>,  <<-3050, 449, 8934>>),
    Call("Thumb_02.L",  "Thumb_01.L",  <<-3050, 449, 8934>>,  <<-3111, 620, 8575>>),
    Call("Thumb_03.L",  "Thumb_02.L",  <<-3111, 620, 8575>>,  <<-3166, 772, 8255>>),
    Call("Index_01.L",  "Hand.L",      <<-2968, 160, 9133>>,  <<-2991, 155, 8683>>),
    Call("Index_02.L",  "Index_01.L",  <<-2991, 155, 8683>>,  <<-3012, 151, 8279>>),
    Call("Index_03.L",  "Index_02.L",  <<-3012, 151, 8279>>,  <<-3030, 147, 7919>>),
    Call("Middle_01.L", "Hand.L",      <<-2921, -34, 9132>>,  <<-2946, -39, 8633>>),
    Call("Middle_02.L", "Middle_01.L", <<-2946, -39, 8633>>,  <<-2969, -44, 8184>>),
    Call("Middle_03.L", "Middle_02.L", <<-2969, -44, 8184>>,  <<-2989, -48, 7784>>),
    Call("Ring_01.L",   "Hand.L",      <<-2873, -229, 9132>>, <<-2896, -233, 8683>>),
    Call("Ring_02.L",   "Ring_01.L",   <<-2896, -233, 8683>>, <<-2916, -237, 8278>>),
    Call("Ring_03.L",   "Ring_02.L",   <<-2916, -237, 8278>>, <<-2934, -241, 7919>>),
    Call("Pinky_01.L",  "Hand.L",      <<-2825, -423, 9132>>, <<-2845, -427, 8732>>),
    Call("Pinky_02.L",  "Pinky_01.L",  <<-2845, -427, 8732>>, <<-2864, -431, 8373>>),
    Call("Pinky_03.L",  "Pinky_02.L",  <<-2864, -431, 8373>>, <<-2880, -434, 8053>>),
    Call("Thumb_01.R",  "Hand.R",      <<3223, 270, 9321>>,   <<3221, 463, 8915>>),
    Call("Thumb_02.R",  "Thumb_01.R",  <<3221, 463, 8915>>,   <<3219, 637, 8550>>),
    Call("Thumb_03.R",  "Thumb_02.R",  <<3219, 637, 8550>>,   <<3217, 792, 8225>>),
    Call("Index_01.R",  "Hand.R",      <<3266, 166, 9126>>,   <<3313, 159, 8679>>),
    Call("Index_02.R",  "Index_01.R",  <<3313, 159, 8679>>,   <<3355, 152, 8276>>),
    Call("Index_03.R",  "Index_02.R",  <<3355, 152, 8276>>,   <<3377, 139, 7916>>),
    Call("Middle_01.R", "Hand.R",      <<3310, -34, 9134>>,   <<3362, -42, 8637>>),
    Call("Middle_02.R", "Middle_01.R", <<3362, -42, 8637>>,   <<3408, -50, 8189>>),
    Call("Middle_03.R", "Middle_02.R", <<3408, -50, 8189>>,   <<3450, -56, 7792>>),
    Call("Ring_01.R",   "Hand.R",      <<3354, -234, 9142>>,  <<3400, -241, 8695>>),
    Call("Ring_02.R",   "Ring_01.R",   <<3400, -241, 8695>>,  <<3442, -248, 8292>>),
    Call("Ring_03.R",   "Ring_02.R",   <<3442, -248, 8292>>,  <<3480, -254, 7934>>),
    Call("Pinky_01.R",  "Hand.R",      <<3398, -434, 9150>>,  <<3439, -441, 8752>>),
    Call("Pinky_02.R",  "Pinky_01.R",  <<3439, -441, 8752>>,  <<3515, -428, 8398>>),
    Call("Pinky_03.R",  "Pinky_02.R",  <<3476, -447, 8394>>,  <<3510, -452, 8076>>),
    Call("UpperLeg.L",  "Root",        <<-1500, 0, 9000>>,    <<-1500, 0, 4500>>),
    Call("LowerLeg.L",  "UpperLeg.L",  <<-1500, 0, 4500>>,    <<-1500, 0, 500>>),
    Call("Foot.L",      "LowerLeg.L",  <<-1500, 0, 500>>,     <<-1500, 1500, 0>>),
    Call("Toe.L",       "Foot.L",      <<-1500, 1500, 0>>,    <<-1500, 2500, 0>>),
    Call("UpperLeg.R",  "Root",        <<1500, 0, 9000>>,     <<1500, 0, 4500>>),
    Call("LowerLeg.R",  "UpperLeg.R",  <<1500, 0, 4500>>,     <<1500, 0, 500>>),
    Call("Foot.R",      "LowerLeg.R",  <<1500, 0, 500>>,      <<1500, 1500, 0>>),
    Call("Toe.R",       "Foot.R",      <<1500, 1500, 0>>,     <<1500, 2500, 0>>)
>>

(***************************************************************************)
(* CharacterBuilder: the skeleton of blender_character_generator.py, as    *)
(* the sequence of add_bone calls each builder makes.                      *)
(***************************************************************************)
Mirror(side) == IF side = "L" THEN -1 ELSE 1

build_spine_chain == <<
    Call("Root",     None,       <<0, 0,  9000>>, <<0, 0, 10500>>),
    Call("Spine_01", "Root",     <<0, 0, 10500>>, <<0, 0, 12500>>),
    Call("Spine_02", "Spine_01", <<0, 0, 12500>>, <<0, 0, 14500>>),
    Call("Spine_03", "Spine_02", <<0, 0, 14500>>, <<0, 0, 16500>>),
    Call("Neck",     "Spine_03", <<0, 0, 16500>>, <<0, 0, 17000>>),
    Call("Head",     "Neck",     <<0, 0, 17000>>, <<0, 0, 19500>>) >>

\* build_finger with the tip's tail at the factor of its head (1.9 for 2.7).
build_finger_flat_tip(hand_name, finger_name, side, start, direction) == <<
    Call(finger_name \o "_01." \o side, hand_name,
         start, IAdd(start, direction)),
    Call(finger_name \o "_02." \o side, finger_name \o "_01." \o side,
         IAdd(start, direction), IAdd(start, ITenths(direction, 19))),
    Call(finger_name \o "_03." \o side, finger_name \o "_02." \o side,
         IAdd(start, ITenths(direction, 19)), IAdd(start, ITenths(direction, 19))) >>

build_finger(hand_name, finger_name, side, start, direction) == <<
    Call(finger_name \o "_01." \o side, hand_name,
         start, IAdd(start, direction)),
    Call(finger_name \o "_02." \o side, finger_name \o "_01." \o side,
         IAdd(start, direction), IAdd(start, ITenths(direction, 19))),
    Call(finger_name \o "_03." \o side, finger_name \o "_02." \o side,
         IAdd(start, ITenths(direction, 19)), IAdd(start, ITenths(direction, 27))) >>

build_arm_chain(side) ==
    LET m == Mirror(side)
        hand == "Hand." \o side
    IN  << Call("Shoulder." \o side, "Spine_03",
                <<m * 1000, 0, 15500>>, <<m * 2500, 0, 15500>>),
           Call("UpperArm." \o side, "Shoulder." \o side,
                <<m * 2500, 0, 15500>>, <<m * 2500, 0, 12500>>),
           Call("ForeArm." \o side, "UpperArm." \o side,
                <<m * 2500, 0, 12500>>, <<m * 2500, 0, 9500>>),
           Call(hand, "ForeArm." \o side,
                <<m * 2500, 0, 9500>>, <<m * 2500, 0, 8500>>) >>
        \o build_finger(hand, "Thumb",  side, <<m * 2800, 0, 8700>>, <<m * 200, 0, -400>>)
        \o build_finger(hand, "Index",  side, <<m * 2700, 0, 8500>>, <<0, 0, -450>>)
        \o build_finger(hand, "Middle", side, <<m * 2500, 0, 8500>>, <<0, 0, -500>>)
        \o build_finger(hand, "Ring",   side, <<m * 2300, 0, 8500>>, <<0, 0, -450>>)
        \o build_finger(hand, "Pinky",  side, <<m * 2100, 0, 8500>>, <<0, 0, -400>>)

build_leg_chain(side) ==
    LET m == Mirror(side)
    IN  << Call("UpperLeg." \o side, "Root",
                <<m * 1500, 0, 9000>>, <<m * 1500, 0, 4500>>),
           Call("LowerLeg." \o side, "UpperLeg." \o side,
                <<m * 1500, 0, 4500>>, <<m * 1500, 0, 500>>),
           Call("Foot." \o side, "LowerLeg." \o side,
                <<m * 1500, 0, 500>>, <<m * 1500, 1500, 0>>),
           Call("Toe." \o side, "Foot." \o side,
                <<m * 1500, 1500, 0>>, <<m * 1500, 2500, 0>>) >>

\* build_complete_skeleton with the arms built before the spine.
build_complete_skeleton_arms_first ==
    build_arm_chain("L") \o build_spine_chain \o build_arm_chain("R")
        \o build_leg_chain("L") \o build_leg_chain("R")

build_complete_skeleton ==
    build_spine_chain \o build_arm_chain("L") \o build_arm_chain("R")
        \o build_leg_chain("L") \o build_leg_chain("R")

Scripts == {"skeleton_generator_clean", "blender_character_generator"}

\* The add_bone calls a script's skeleton builder makes, in order.
ScriptCalls(script) ==
    IF script = "skeleton_generator_clean" THEN build_extracted_skeleton
    ELSE build_complete_skeleton

(***************************************************************************)
(* Scene objects.                                                          *)
(***************************************************************************)
Identity == [scale |-> <<1, 1, 1>>, loc |-> <<0, 0, 0>>]

\* matrix_world @ v for a bone endpoint v.
World(mw, v) == <<mw.scale[1] * v[1] + mw.loc[1],
                  mw.scale[2] * v[2] + mw.loc[2],
                  mw.scale[3] * v[3] + mw.loc[3]>>

MeshObject(name, rule, kind, reads, head, tail, radius, pose) ==
    [name |-> name, rule |-> rule, kind |-> kind, reads |-> reads,
     head |-> head, tail |-> tail, radius |-> radius, pose |-> pose,
     posed_from |-> <<head, tail>>,
     parts |-> << >>, parent |-> None, material |-> 0]

\* A mesh that is in the scene before a script runs.
OldMesh == MeshObject("PlayerMesh", "existing", "joined", << >>,
                      <<0, 0, 0>>, <<0, 0, 0>>, 0, "vertices")

NoObjects == [i \in {} |-> OldMesh]

(***************************************************************************)
(* Skeleton authoring.                                                     *)
(***************************************************************************)
At(script, at, i) == [script |-> script, at |-> at, i |-> i]

\* The variables of the mesh fitter, which authoring leaves alone.
FitterIdle == UNCHANGED <<found, mesh_parts, unified, runs, fitting, printed>>

\* Arguments the free authoring specification draws add_bone calls from.
AuthorNames   == {"Root", "Spine_01", "Hand.L"}
AuthorParents == AuthorNames \cup {None, "Hand.Missing"}
AuthorTails   == {<<0, 0, 0>>, <<0, 0, 1000>>}

\* State after create_armature: an armature at the origin, its default bone removed.
InitAuthor ==
    /\ pc = At("author", "add_bone", 0)
    /\ call = NoCall
    /\ bones = << >>
    /\ bones_dict = << >>
    /\ has_armature = TRUE
    /\ matrix_world = Identity
    /\ found = FALSE
    /\ objects = NoObjects
    /\ next_id = 1
    /\ mesh_parts = << >>
    /\ unified = 0
    /\ materials = 0
    /\ raised = None
    /\ runs = 0
    /\ printed = << >>
    /\ active_object = 0
    /\ fitting = << >>

\* One add_bone call with any arguments.
AddBone ==
    /\ pc.script = "author"
    /\ Len(bones) < MaxBones
    /\ \E name \in AuthorNames, parent_name \in AuthorParents, tail_pos \in AuthorTails :
          /\ ~HasBone(bones, unique_name(bones, name))
          /\ call' = Call(name, parent_name, <<0, 0, 0>>, tail_pos)
          /\ bones' = add_bone(bones, call')
          /\ bones_dict' = (name :> unique_name(bones, name)) @@ bones_dict
    /\ pc' = At("author", "add_bone", pc.i + 1)
    /\ UNCHANGED <<has_armature, matrix_world, objects, next_id, materials, raised,
                   active_object>>
    /\ FitterIdle

NextAuthor == AddBone

SpecAuthor == InitAuthor /\ [][NextAuthor]_vars

(***************************************************************************)
(* The two generator scripts: SkeletonGenerator.generate and the main() of *)
(* blender_character_generator.py.                                         *)
(***************************************************************************)
\* The armature a scene may hold before a generator runs (the host's default bone).
DefaultBones == <<[name |-> "Bone", parent |-> None, head |-> <<0, 0, 0>>, tail |-> <<0, 0, Unit>>]>>

InitBuild ==
    /\ \E script \in Scripts : pc = At(script, "clear_scene", 0)
    /\ call = NoCall
    /\ has_armature \in BOOLEAN
    /\ bones = IF has_armature THEN DefaultBones ELSE << >>
    /\ bones_dict = << >>
    /\ matrix_world = Identity
    /\ found = FALSE
    /\ \E old \in BOOLEAN :
          /\ objects = IF old THEN (1 :> OldMesh) ELSE NoObjects
          /\ next_id = IF old THEN 2 ELSE 1
          /\ materials = IF old THEN 1 ELSE 0
    /\ mesh_parts = << >>
    /\ unified = 0
    /\ raised = None
    /\ runs = 0
    /\ printed = << >>
    /\ active_object = 0
    /\ fitting = << >>

\* clear_scene: select everything and delete it.
clear_scene ==
    /\ pc.script \in Scripts
    /\ pc.at = "clear_scene"
    /\ objects' = NoObjects
    /\ has_armature' = FALSE
    /\ bones' = << >>
    /\ pc' = At(pc.script, "create_armature", 0)
    /\ active_object' = 0
    /\ UNCHANGED <<call, bones_dict, matrix_world, next_id, materials, raised>>
    /\ FitterIdle

\* create_armature: armature_add at the origin, the default bone removed.
create_armature ==
    /\ pc.script \in Scripts
    /\ pc.at = "create_armature"
    /\ has_armature' = TRUE
    /\ matrix_world' = Identity
    /\ bones' = << >>
    /\ pc' = At(pc.script, "build", 0)
    /\ active_object' = 0
    /\ UNCHANGED <<call, bones_dict, objects, next_id, materials, raised>>
    /\ FitterIdle

\* The next add_bone call of build_extracted_skeleton / build_complete_skeleton.
BuildStep ==
    /\ pc.script \in Scripts
    /\ pc.at = "build"
    /\ pc.i < Len(ScriptCalls(pc.script))
    /\ call' = ScriptCalls(pc.script)[pc.i + 1]
    /\ bones' = add_bone(bones, call')
    /\ bones_dict' = (call'.name :> unique_name(bones, call'.name)) @@ bones_dict
    /\ pc' = At(pc.script, "build", pc.i + 1)
    /\ UNCHANGED <<has_armature, matrix_world, objects, next_id, materials, raised,
                   active_object>>
    /\ FitterIdle

\* The builder returns; SkeletonGenerator.generate ends here.
BuildDone ==
    /\ pc.script \in Scripts
    /\ pc.at = "build"
    /\ pc.i = Len(ScriptCalls(pc.script))
    /\ pc' = At(pc.script,
                IF pc.script = "blender_character_generator" THEN "create_detailed_mesh" ELSE "done",
                0)
    /\ UNCHANGED <<call, bones, bones_dict, has_armature, matrix_world,
                   objects, next_id, materials, raised, active_object>>
    /\ FitterIdle

\* create_detailed_mesh, setup_materials, parent_mesh_to_armature: the character
\* generator's own joined PlayerMesh, with a new PlayerMaterial, parented.
CharacterMesh ==
    /\ pc.script = "blender_character_generator"
    /\ pc.at = "create_detailed_mesh"
    /\ objects' = (next_id :> [OldMesh EXCEPT !.rule = "create_detailed_mesh",
                                             !.parent = "PlayerArmature",
                                             !.material = materials + 1]) @@ objects
    /\ next_id' = next_id + 1
    /\ materials' = materials + 1
    /\ pc' = At(pc.script, "done", 0)
    /\ active_object' = 0
    /\ UNCHANGED <<call, bones, bones_dict, has_armature, matrix_world, raised>>
    /\ FitterIdle

NextBuild == clear_scene \/ create_armature \/ BuildStep \/ BuildDone \/ CharacterMesh

SpecBuild == InitBuild /\ [][NextBuild]_vars

(***************************************************************************)
(* Parent relation.                                                        *)
(***************************************************************************)
\* Following parent links from bone `name` ends at a parentless bone within `fuel` steps.
RECURSIVE ReachesRoot(_, _, _)
ReachesRoot(bs, name, fuel) ==
    LET b == BoneNamed(bs, name)
    IN  \/ b.parent = None
        \/ /\ fuel > 0
           /\ HasBone(bs, b.parent)
           /\ ReachesRoot(bs, b.parent, fuel - 1)

Forest(bs) == \A k \in 1..Len(bs) : ReachesRoot(bs, bs[k].name, Len(bs))

\* Call c names a parent that is no bone of the skeleton bs.
UnknownParent(bs, c) ==
    /\ c # NoCall
    /\ c.parent_name # None
    /\ ~HasBone(bs, c.parent_name)

(* C3: add_bone with a parent_name that is not in the skeleton makes the   *)
(* construction fail (an error is raised) and never leaves the new bone in *)
(* the skeleton as a parentless root.                                      *)
C3_UnknownParentRejected ==
    UnknownParent(bones, call) =>
        /\ raised # None
        /\ ~(bones[Len(bones)].name = unique_name(SubSeq(bones, 1, Len(bones) - 1), call.name)
             /\ bones[Len(bones)].parent = None)

(* C4: in both authored skeletons every add_bone call that names a parent  *)
(* is made after the call that added the parent, so every bone built so    *)
(* far carries the parent link its call declared.                          *)
C4_ParentBeforeChild ==
    pc.script \in Scripts /\ pc.at = "build" =>
        LET calls == ScriptCalls(pc.script)
        IN  /\ Len(bones) = pc.i
            /\ \A k \in 1..pc.i : bones[k].parent = calls[k].parent_name
            /\ pc.i < Len(calls) /\ calls[pc.i + 1].parent_name # None
                  => HasBone(bones, calls[pc.i + 1].parent_name)

C4_Witness ==
    /\ pc.script \in Scripts
    /\ pc.at = "build"
    /\ pc.i = Len(ScriptCalls(pc.script))
    /\ call.name = "Toe.R"
    /\ BoneNamed(bones, "Toe.R").parent = "Foot.R"
    /\ BoneNamed(bones, "Pinky_03.R").parent = "Pinky_02.R"

\* A bone once added keeps its place, its name and its parent.
BonesKept == \A k \in 1..Len(bones) : k <= Len(bones') /\ bones'[k] = bones[k]

(* C5: after any sequence of add_bone calls the parent relation is a       *)
(* forest (every chain of parent links ends at a parentless root), and no  *)
(* call changes the parent of a bone added earlier.                        *)
C5_ForestAlways == [](pc.script = "author" => Forest(bones)) /\ [][BonesKept]_vars

C5_Witness ==
    /\ pc.script = "author"
    /\ Len(bones) = 3
    /\ bones[3].parent = bones[2].name
    /\ bones[2].parent = bones[1].name
    /\ bones[1].parent = None
    /\ call.parent_name = bones[2].name

(* C6: every bone authored by build_extracted_skeleton and by              *)
(* build_complete_skeleton (the three bones of each finger included) has   *)
(* its head different from its tail.                                       *)
C6_NoDegenerateBone ==
    pc.script \in Scripts /\ pc.at \in {"build", "create_detailed_mesh", "done"} =>
        \A k \in 1..Len(bones) : bones[k].head # bones[k].tail

C6_Witness ==
    /\ pc.script = "blender_character_generator"
    /\ pc.at = "done"
    /\ Len(bones) = 52
    /\ HasBone(bones, "Thumb_03.L")
    /\ HasBone(bones, "Pinky_03.R")

(***************************************************************************)
(* Bone geometry and rotations (mathutils), over exact rationals.          *)
(***************************************************************************)
\* Squared length of the integer vector tail - head, and of its XY projection.
Len2(head, tail)   == LET v == ISub(tail, head) IN v[1] * v[1] + v[2] * v[2] + v[3] * v[3]
LenXY2(head, tail) == LET v == ISub(tail, head) IN v[1] * v[1] + v[2] * v[2]

\* The bones whose length and direction are rational.
ExactBone(head, tail) == IsSquare(Len2(head, tail)) /\ IsSquare(LenXY2(head, tail))

\* The body of get_bone_midpoint_and_length on the world-space endpoints.
BoneFacts(head_w, tail_w) ==
    LET head == Vec(head_w)
        tail == Vec(tail_w)
    IN  [midpoint  |-> VDivide(VAdd(head, tail), RInt(2)),
         length    |-> VLength(VSub(tail, head)),
         direction |-> VNormalized(VSub(tail, head)),
         head      |-> head,
         tail      |-> tail]

\* Rotations are 3x3 matrices, <<row 1, row 2, row 3>>.
IdentityMatrix == <<Vec(<<1, 0, 0>>), Vec(<<0, 1, 0>>), Vec(<<0, 0, 1>>)>>

MApply(m, v) == <<VDot(m[1], v), VDot(m[2], v), VDot(m[3], v)>>

MColumn(m, j) == <<m[1][j], m[2][j], m[3][j]>>

MMul(a, b) ==
    <<<<VDot(a[1], MColumn(b, 1)), VDot(a[1], MColumn(b, 2)), VDot(a[1], MColumn(b, 3))>>,
      <<VDot(a[2], MColumn(b, 1)), VDot(a[2], MColumn(b, 2)), VDot(a[2], MColumn(b, 3))>>,
      <<VDot(a[3], MColumn(b, 1)), VDot(a[3], MColumn(b, 2)), VDot(a[3], MColumn(b, 3))>>>>

\* An angle is held by its cosine and sine.
\* Vector.angle(other): the angle in [0, pi] between two non-zero vectors.
VAngle(a, b) ==
    LET c == VDot(VNormalized(a), VNormalized(b))
    IN  [cos |-> c, sin |-> RSqrt(RSub(RInt(1), RMul(c, c)))]

\* The rotation by `angle` about the unit vector k (axis-angle to matrix).
AxisAngleMatrix(k, angle) ==
    LET c == angle.cos
        s == angle.sin
        t == RSub(RInt(1), c)
        E(i, j) == RMul(t, RMul(k[i], k[j]))
    IN  <<<<RAdd(c, E(1, 1)),
            RSub(E(1, 2), RMul(s, k[3])),
            RAdd(E(1, 3), RMul(s, k[2]))>>,
          <<RAdd(E(2, 1), RMul(s, k[3])),
            RAdd(c, E(2, 2)),
            RSub(E(2, 3), RMul(s, k[1]))>>,
          <<RSub(E(3, 1), RMul(s, k[2])),
            RAdd(E(3, 2), RMul(s, k[1])),
            RAdd(c, E(3, 3))>>>>

\* The rotation by pi about the direction of the non-zero vector a:
\* 2 a a^T / |a|^2 - I (the axis needs no normalising).
HalfTurnMatrix(a) ==
    LET n == VLength2(a)
        E(i, j) == RSub(RDiv(RMul(RInt(2), RMul(a[i], a[j])), n),
                        IF i = j THEN RInt(1) ELSE RInt(0))
    IN  <<<<E(1, 1), E(1, 2), E(1, 3)>>,
          <<E(2, 1), E(2, 2), E(2, 3)>>,
          <<E(3, 1), E(3, 2), E(3, 3)>>>>

\* ortho_v3_v3 of the host's math library, for a vector whose dominant axis is Z.
OrthoOfZ(v) == <<v[3], v[3], RNeg(RAdd(v[1], v[2]))>>

ZAxis == Vec(<<0, 0, 1>>)

\* The threshold 0.0001 of the cylinder alignment, and the host's FLT_EPSILON (2^-23).
AxisThreshold == Rat(1, 10000)
FltEpsilon    == Rat(1, 8388608)

\* Vector.rotation_difference(other) from the +Z axis, as the matrix of the
\* quaternion it returns: both vectors are normalised; a vanishing cross
\* product gives the identity (same direction) or a half turn about an axis
\* orthogonal to +Z (opposite direction, or no direction at all).
rotation_difference(z_axis, direction) ==
    LET v1   == VNormalized(z_axis)
        v2   == VNormalized(direction)
        axis == VCross(v1, v2)
        len  == VLength(axis)
    IN  IF RLt(FltEpsilon, len)
        THEN AxisAngleMatrix(VDivide(axis, len), VAngle(v1, v2))
        ELSE IF RLt(RInt(0), VDot(v1, v2))
             THEN IdentityMatrix
             ELSE HalfTurnMatrix(OrthoOfZ(v1))

\* create_limb_cylinder / create_finger_mesh: the object rotation that aligns
\* the cylinder (Z-up) with the bone; the object keeps its default rotation
\* (the identity) when the cross product is not longer than the threshold.
CylinderRotation(direction) ==
    LET z_axis        == ZAxis
        rotation_axis == VCross(z_axis, direction)
        length        == VLength(rotation_axis)
    IN  IF RLt(AxisThreshold, length)
        THEN AxisAngleMatrix(VDivide(rotation_axis, length), VAngle(z_axis, direction))
        ELSE IdentityMatrix

\* math.radians(75) of create_hand_box, held by the rational point of the
\* unit circle (69/269, 260/269), the angle 75.14 degrees.
TwistAngle == [cos |-> Rat(69, 269), sin |-> Rat(260, 269)]

\* Quaternion(axis, angle): the axis is normalised; a zero axis gives the identity.
QuaternionAxisAngle(axis, angle) ==
    IF axis = Zero3 THEN IdentityMatrix
    ELSE AxisAngleMatrix(VNormalized(axis), angle)

\* The two rotations of create_hand_box composed the other way round: the twist
\* first, the alignment after it.
HandBoxRotationTwistFirst(direction) ==
    MMul(rotation_difference(ZAxis, direction), QuaternionAxisAngle(direction, TwistAngle))

\* create_hand_box: twist_quat @ rotation_quat.
HandBoxRotation(direction) ==
    MMul(QuaternionAxisAngle(direction, TwistAngle), rotation_difference(ZAxis, direction))

\* create_foot_box: alignment only.
FootBoxRotation(direction) == rotation_difference(ZAxis, direction)

\* A box center that forgets the bone length: head + direction * fraction.
BoxCenterNoLength(g, fraction) == VAdd(g.head, VScale(g.direction, fraction))

\* palm_center / foot_center: head + direction * length * fraction.
BoxCenter(g, fraction) ==
    VAdd(g.head, VScale(VScale(g.direction, g.length), fraction))

HandFraction == Rat(7, 10)
FootFraction == Rat(6, 10)

(***************************************************************************)
(* MeshAutoFitter: the fitted primitives.  A mesh object records the rule  *)
(* that made it, the bones it read and the world-space endpoints it was    *)
(* fitted to; its pose is what the rule computes from them.                *)
(***************************************************************************)
\* World-space head and tail of a bone (matrix_world @ head_local / tail_local).
BoneEnds(bone) ==
    [head |-> World(matrix_world, bone.head), tail |-> World(matrix_world, bone.tail)]

Facts(o) == BoneFacts(o.head, o.tail)

\* Every primitive put at the head of its bone.
PrimCenterAtHead(o) == Facts(o).head

\* Where the rule puts the primitive: the location argument of the host call,
\* or the translation of the baked transform.
PrimCenter(o) ==
    CASE o.rule = "create_hand_box" -> BoxCenter(Facts(o), HandFraction)
      [] o.rule = "create_foot_box" -> BoxCenter(Facts(o), FootFraction)
      [] OTHER                      -> Facts(o).midpoint

\* The rotation the rule gives the primitive.
PrimRotation(o) ==
    CASE o.rule \in {"create_limb_cylinder", "create_finger_mesh"}
                                    -> CylinderRotation(Facts(o).direction)
      [] o.rule = "create_hand_box" -> HandBoxRotation(Facts(o).direction)
      [] o.rule = "create_foot_box" -> FootBoxRotation(Facts(o).direction)
      [] OTHER                      -> IdentityMatrix

\* depth=length of the cylinders, depth=height of the torso cone.
PrimDepth(o) == Facts(o).length

\* radius= of the host call: the rule's own constant for the cylinders and the
\* pelvis, half the bone length for the head sphere.
PrimRadius(o) ==
    CASE o.rule = "create_head_sphere" -> RDiv(Facts(o).length, RInt(2))
      [] OTHER                         -> RInt(o.radius)

\* Local extents (width, depth, length) of the boxes: multiples of the bone length.
HandExtents == <<Rat(7, 10), Rat(4, 10), Rat(10, 10)>>
FootExtents == <<Rat(55, 100), Rat(28, 100), Rat(9, 10)>>

BoxExtents(o) ==
    LET ratios == IF o.rule = "create_hand_box" THEN HandExtents ELSE FootExtents
    IN  [k \in 1..3 |-> RMul(Facts(o).length, ratios[k])]

\* f"{bone_name}_Mesh"
MeshName(bone_name) == bone_name \o "_Mesh"

\* The host call creates the object, which becomes the active object; the rule
\* names it and appends it to mesh_parts.
Create(o) ==
    /\ objects' = (next_id :> o) @@ objects
    /\ next_id' = next_id + 1
    /\ mesh_parts' = Append(mesh_parts, next_id)
    /\ active_object' = next_id
    /\ raised' = raised

\* self.armature.data.bones[bone_name] on a name the armature does not hold.
KeyError ==
    /\ raised' = "KeyError"
    /\ UNCHANGED <<objects, next_id, mesh_parts, active_object>>

\* A rule fitted to one bone: the bone looked up, its endpoints read.
FitBone(bone_name, rule, kind, radius, pose) ==
    IF HasBone(bones, bone_name)
    THEN LET ends == BoneEnds(BoneNamed(bones, bone_name))
         IN  Create(MeshObject(MeshName(bone_name), rule, kind, <<bone_name>>,
                               ends.head, ends.tail, radius, pose))
    ELSE KeyError

create_limb_cylinder(bone_name, radius) ==
    FitBone(bone_name, "create_limb_cylinder", "cylinder", radius, "object")

create_finger_mesh(bone_name) ==
    FitBone(bone_name, "create_finger_mesh", "cylinder", 100, "object")

create_hand_box(bone_name) ==
    FitBone(bone_name, "create_hand_box", "cube", 0, "vertices")

create_foot_box(bone_name) ==
    FitBone(bone_name, "create_foot_box", "cube", 0, "vertices")

\* The radius is half the bone length, computed from the endpoints.
create_head_sphere ==
    IF HasBone(bones, "Head")
    THEN LET ends == BoneEnds(BoneNamed(bones, "Head"))
         IN  Create(MeshObject("Head_Mesh", "create_head_sphere", "sphere", <<"Head">>,
                               ends.head, ends.tail, 0, "object"))
    ELSE KeyError

\* From the head of Spine_01 to the tail of Spine_03.
create_torso_cone ==
    IF HasBone(bones, "Spine_01") /\ HasBone(bones, "Spine_03")
    THEN Create(MeshObject("Torso_Mesh", "create_torso_cone", "cone",
                           <<"Spine_01", "Spine_03">>,
                           World(matrix_world, BoneNamed(bones, "Spine_01").head),
                           World(matrix_world, BoneNamed(bones, "Spine_03").tail),
                           0, "object"))
    ELSE KeyError

create_pelvis_box ==
    IF HasBone(bones, "Root")
    THEN LET ends == BoneEnds(BoneNamed(bones, "Root"))
         IN  Create(MeshObject("Pelvis_Mesh", "create_pelvis_box", "sphere", <<"Root">>,
                               ends.head, ends.tail, 1500, "object"))
    ELSE KeyError

(***************************************************************************)
(* generate_all_meshes: the calls it makes, in order.                      *)
(***************************************************************************)
Rule(fn, reads, radius, guarded) ==
    [fn |-> fn, reads |-> reads, radius |-> radius, guarded |-> guarded]

Fingers == <<"Thumb", "Index", "Middle", "Ring", "Pinky">>
Joints  == <<"01", "02", "03">>

BodyCalls == <<
    Rule("create_head_sphere", <<"Head">>, 0, FALSE),
    Rule("create_torso_cone",  <<"Spine_01", "Spine_03">>, 0, FALSE),
    Rule("create_pelvis_box",  <<"Root">>, 0, FALSE) >>

ArmCalls(side) == <<
    Rule("create_limb_cylinder", <<"UpperArm" \o side>>, 600, FALSE),
    Rule("create_limb_cylinder", <<"ForeArm" \o side>>,  500, FALSE),
    Rule("create_hand_box",      <<"Hand" \o side>>,     0,   FALSE) >>

\* for finger ...: for joint ...: if bone_name in self.armature.data.bones
FingerCalls(side) ==
    [k \in 1..(Len(Fingers) * Len(Joints)) |->
        Rule("create_finger_mesh",
             <<Fingers[((k - 1) \div Len(Joints)) + 1] \o "_"
                 \o Joints[((k - 1) % Len(Joints)) + 1] \o side>>,
             0, TRUE)]

LegCalls(side) == <<
    Rule("create_limb_cylinder", <<"UpperLeg" \o side>>, 800, FALSE),
    Rule("create_limb_cylinder", <<"LowerLeg" \o side>>, 600, FALSE),
    Rule("create_foot_box",      <<"Foot" \o side>>,     0,   FALSE),
    Rule("create_limb_cylinder", <<"Toe" \o side>>,      400, FALSE) >>

generate_all_meshes ==
    BodyCalls
        \o ArmCalls(".L") \o ArmCalls(".R")
        \o FingerCalls(".L") \o FingerCalls(".R")
        \o LegCalls(".L") \o LegCalls(".R")

CallsPresent(c) == \A k \in 1..Len(c.reads) : HasBone(bones, c.reads[k])

(***************************************************************************)
(* MeshAutoFitter.generate, step by step.                                  *)
(***************************************************************************)
Range(s) == {s[k] : k \in 1..Len(s)}

\* The variables a fitting step never writes.
SceneKept == UNCHANGED <<call, bones, bones_dict, has_armature, matrix_world, fitting,
                         printed>>

\* The calls that may run now: the next call of generate_all_meshes in a pass,
\* or, when bones are fitted on their own, any rule for the next bone.
Pending ==
    IF pc.script = "mesh_auto_fit" /\ pc.at = "generate_all_meshes"
    THEN IF pc.i < Len(generate_all_meshes) THEN {generate_all_meshes[pc.i + 1]} ELSE {}
    ELSE IF pc.script = "fit" /\ pc.at = "create"
         THEN {c \in Range(generate_all_meshes) :
                  CallsPresent(c) /\ c.reads[1] = bones[pc.i + 1].name}
         ELSE {}

\* After a call: on to the next one, or out of the script when it raised.
Advance ==
    /\ pc' = IF raised' # None THEN At(pc.script, "aborted", pc.i)
             ELSE IF pc.script = "fit"
                  THEN At("fit", IF pc.i + 1 < Len(bones) THEN "create" ELSE "done", pc.i + 1)
             ELSE At(pc.script, "generate_all_meshes", pc.i + 1)
    /\ UNCHANGED <<found, unified, materials, runs>>
    /\ SceneKept

HeadSphere ==
    \E c \in Pending : c.fn = "create_head_sphere" /\ create_head_sphere /\ Advance

TorsoCone ==
    \E c \in Pending : c.fn = "create_torso_cone" /\ create_torso_cone /\ Advance

PelvisBox ==
    \E c \in Pending : c.fn = "create_pelvis_box" /\ create_pelvis_box /\ Advance

LimbCylinder ==
    \E c \in Pending :
        c.fn = "create_limb_cylinder" /\ create_limb_cylinder(c.reads[1], c.radius) /\ Advance

HandBox ==
    \E c \in Pending : c.fn = "create_hand_box" /\ create_hand_box(c.reads[1]) /\ Advance

FootBox ==
    \E c \in Pending : c.fn = "create_foot_box" /\ create_foot_box(c.reads[1]) /\ Advance

\* The finger rule called for every finger name, present or not.
FingerMeshUnguarded ==
    \E c \in Pending : c.fn = "create_finger_mesh" /\ create_finger_mesh(c.reads[1]) /\ Advance

\* A finger bone the armature does not hold is passed over.
FingerMesh ==
    \E c \in Pending :
        /\ c.fn = "create_finger_mesh"
        /\ IF HasBone(bones, c.reads[1])
           THEN create_finger_mesh(c.reads[1])
           ELSE UNCHANGED <<objects, next_id, mesh_parts, raised, active_object>>
        /\ Advance

\* main(): a new MeshAutoFitter, and generate() on it.  The script can be run
\* again once it has ended.
main ==
    /\ pc.script = "mesh_auto_fit"
    /\ pc.at \in {"main", "done", "aborted"}
    /\ runs < MaxRuns
    /\ runs' = runs + 1
    /\ found' = FALSE
    /\ mesh_parts' = << >>
    /\ unified' = 0
    /\ raised' = None
    /\ pc' = At(pc.script, "find_armature", 0)
    /\ UNCHANGED <<objects, next_id, materials, active_object>>
    /\ SceneKept

\* generate going on to delete_existing_meshes whether an armature was found or not.
find_armature_unchecked ==
    /\ pc.script = "mesh_auto_fit"
    /\ pc.at = "find_armature"
    /\ found' = has_armature
    /\ pc' = At(pc.script, "delete_existing_meshes", 0)
    /\ UNCHANGED <<objects, next_id, mesh_parts, unified, materials, raised, runs,
                   active_object>>
    /\ SceneKept

\* find_armature; without an armature generate reports the error and returns.
find_armature ==
    /\ pc.script = "mesh_auto_fit"
    /\ pc.at = "find_armature"
    /\ found' = has_armature
    /\ pc' = At(pc.script, IF has_armature THEN "delete_existing_meshes" ELSE "done", 0)
    /\ UNCHANGED <<objects, next_id, mesh_parts, unified, materials, raised, runs,
                   active_object>>
    /\ SceneKept

\* Every object of the scene selected and deleted, the armature with the meshes.
delete_all_objects ==
    /\ pc.script = "mesh_auto_fit"
    /\ pc.at = "delete_existing_meshes"
    /\ objects' = NoObjects
    /\ has_armature' = FALSE
    /\ bones' = << >>
    /\ active_object' = 0
    /\ pc' = At(pc.script, "generate_all_meshes", 0)
    /\ UNCHANGED <<found, next_id, mesh_parts, unified, materials, raised, runs,
                   call, bones_dict, matrix_world, fitting, printed>>

\* delete_existing_meshes: every MESH object is selected and deleted.
delete_existing_meshes ==
    /\ pc.script = "mesh_auto_fit"
    /\ pc.at = "delete_existing_meshes"
    /\ objects' = NoObjects
    /\ pc' = At(pc.script, "generate_all_meshes", 0)
    /\ active_object' = 0
    /\ UNCHANGED <<found, next_id, mesh_parts, unified, materials, raised, runs>>
    /\ SceneKept

\* generate going on to join_meshes before generate_all_meshes has made its last call.
GenerateDoneEarly ==
    /\ pc.script = "mesh_auto_fit"
    /\ pc.at = "generate_all_meshes"
    /\ pc.i >= 1
    /\ pc' = At(pc.script, "join_meshes", 0)
    /\ UNCHANGED <<found, objects, next_id, mesh_parts, unified, materials, raised, runs,
                   active_object>>
    /\ SceneKept

\* generate_all_meshes returns.
GenerateDone ==
    /\ pc.script = "mesh_auto_fit"
    /\ pc.at = "generate_all_meshes"
    /\ pc.i = Len(generate_all_meshes)
    /\ pc' = At(pc.script, "join_meshes", 0)
    /\ UNCHANGED <<found, objects, next_id, mesh_parts, unified, materials, raised, runs,
                   active_object>>
    /\ SceneKept

\* join_meshes: the parts are selected and joined into the first one, which is
\* renamed PlayerMesh; the other parts stop being objects of the scene.
join_meshes ==
    /\ pc.script = "mesh_auto_fit"
    /\ pc.at = "join_meshes"
    /\ IF mesh_parts = << >>
       THEN /\ unified' = 0
            /\ pc' = At(pc.script, "setup_material", 0)
            /\ UNCHANGED <<objects, raised, active_object>>
       ELSE IF \E k \in 1..Len(mesh_parts) : mesh_parts[k] \notin DOMAIN objects
       THEN /\ raised' = "ReferenceError"
            /\ pc' = At(pc.script, "aborted", 0)
            /\ UNCHANGED <<objects, unified, active_object>>
       ELSE LET active == mesh_parts[1]
                joined == [objects[active] EXCEPT
                              !.name = "PlayerMesh",
                              !.kind = "joined",
                              !.parts = [k \in 1..Len(mesh_parts) |-> objects[mesh_parts[k]]]]
            IN  /\ objects' = [id \in (DOMAIN objects \ Range(mesh_parts)) \cup {active} |->
                                  IF id = active THEN joined ELSE objects[id]]
                /\ unified' = active
                /\ active_object' = active
                /\ pc' = At(pc.script, "setup_material", 0)
                /\ raised' = raised
    /\ UNCHANGED <<found, next_id, mesh_parts, materials, runs>>
    /\ SceneKept

\* setup_material: a new material is made, then put on the mesh.
setup_material ==
    /\ pc.script = "mesh_auto_fit"
    /\ pc.at = "setup_material"
    /\ materials' = materials + 1
    /\ IF unified = 0
       THEN /\ raised' = "AttributeError"
            /\ pc' = At(pc.script, "aborted", 0)
            /\ UNCHANGED objects
       ELSE /\ objects' = [objects EXCEPT ![unified].material = materials + 1]
            /\ pc' = At(pc.script, "parent_to_armature", 0)
            /\ raised' = raised
    /\ UNCHANGED <<found, next_id, mesh_parts, unified, runs, active_object>>
    /\ SceneKept

\* parent_to_armature: parent_set(type='ARMATURE_AUTO').
parent_to_armature ==
    /\ pc.script = "mesh_auto_fit"
    /\ pc.at = "parent_to_armature"
    /\ objects' = [objects EXCEPT ![unified].parent = "PlayerArmature"]
    /\ pc' = At(pc.script, "done", 0)
    /\ active_object' = 0
    /\ UNCHANGED <<found, next_id, mesh_parts, unified, materials, raised, runs>>
    /\ SceneKept

(***************************************************************************)
(* The scenes the fitter is run on: a skeleton authored by one of the two  *)
(* generators, as authored or adjusted (one bone deleted, its children     *)
(* handed to its parent; or the armature object scaled flat along Z), or a *)
(* scene without armature.                                                 *)
(***************************************************************************)
Authored(script) == Replay(<< >>, ScriptCalls(script))

DropBone(bs, name) ==
    LET gone == BoneNamed(bs, name)
        Keep(b) == b.name # name
        kept == SelectSeq(bs, Keep)
    IN  [k \in 1..Len(kept) |->
            IF kept[k].parent = name THEN [kept[k] EXCEPT !.parent = gone.parent]
            ELSE kept[k]]

Flattened == [scale |-> <<1, 1, 0>>, loc |-> <<0, 0, 0>>]

Skeletons(script) ==
    {[bones |-> Authored(script), matrix_world |-> mw] : mw \in {Identity, Flattened}}
        \cup {[bones |-> DropBone(Authored(script), name), matrix_world |-> Identity] :
                 name \in BoneNames(Authored(script))}

Init ==
    /\ pc = At("mesh_auto_fit", "main", 0)
    /\ call = NoCall
    /\ bones_dict = << >>
    /\ has_armature \in BOOLEAN
    /\ IF has_armature
       THEN \E script \in Scripts : \E s \in Skeletons(script) :
               bones = s.bones /\ matrix_world = s.matrix_world
       ELSE bones = << >> /\ matrix_world = Identity
    /\ found = FALSE
    /\ \E old \in BOOLEAN :
          /\ objects = IF old THEN (1 :> OldMesh) ELSE NoObjects
          /\ next_id = IF old THEN 2 ELSE 1
          /\ materials = IF old THEN 1 ELSE 0
    /\ mesh_parts = << >>
    /\ unified = 0
    /\ raised = None
    /\ runs = 0
    /\ printed = << >>
    /\ active_object = 0
    /\ fitting = << >>

Next ==
    \/ main
    \/ find_armature
    \/ delete_existing_meshes
    \/ HeadSphere
    \/ TorsoCone
    \/ PelvisBox
    \/ LimbCylinder
    \/ HandBox
    \/ FootBox
    \/ FingerMesh
    \/ GenerateDone
    \/ join_meshes
    \/ setup_material
    \/ parent_to_armature

Spec == Init /\ [][Next]_vars

(***************************************************************************)
(* One bone fitted on its own: the bone is drawn from the exact bones of a *)
(* grid, and any rule of generate_all_meshes for its name is applied.      *)
(***************************************************************************)
FitNames == {"Head", "Root", "UpperArm.L", "Hand.L", "Hand.R", "Index_01.L", "Foot.L"}

FitHeads == {<<0, 0, 0>>, <<-2500, 0, 15500>>}

Grid == (-MaxCoord)..MaxCoord

\* Grid vectors in steps of 0.05, the zero vector (a degenerate bone) included.
GridVectors == {<<500 * x, 500 * y, 500 * z>> : x \in Grid, y \in Grid, z \in Grid}

\* The arm that hangs straight down from the shoulder, 0.30 long.
ScenarioVectors == {<<0, 0, -3000>>}

ExactVectors == {v \in GridVectors \cup ScenarioVectors : ExactBone(<<0, 0, 0>>, v)}

Moved == [scale |-> <<1, 1, 1>>, loc |-> <<1000, 0, -500>>]

InitFit ==
    /\ pc = At("fit", "create", 0)
    /\ call = NoCall
    /\ bones_dict = << >>
    /\ has_armature = TRUE
    /\ \E name \in FitNames, head \in FitHeads, v \in ExactVectors :
          bones = <<[name |-> name, parent |-> None, head |-> head, tail |-> IAdd(head, v)]>>
    /\ matrix_world \in {Identity, Moved}
    /\ found = TRUE
    /\ objects = NoObjects
    /\ next_id = 1
    /\ materials = 0
    /\ mesh_parts = << >>
    /\ unified = 0
    /\ raised = None
    /\ runs = 1
    /\ printed = << >>
    /\ active_object = 0
    /\ fitting = << >>

NextFit ==
    \/ HeadSphere
    \/ PelvisBox
    \/ LimbCylinder
    \/ HandBox
    \/ FootBox
    \/ FingerMesh

SpecFit == InitFit /\ [][NextFit]_vars

(***************************************************************************)
(* A left bone and the right bone that is its mirror image in X, fitted    *)
(* one after the other by the rules of generate_all_meshes for them.       *)
(***************************************************************************)
PairNames == {"UpperArm", "Hand", "Index_01", "Foot"}

MirrorX(v) == <<-v[1], v[2], v[3]>>

InitPair ==
    /\ pc = At("fit", "create", 0)
    /\ call = NoCall
    /\ bones_dict = << >>
    /\ has_armature = TRUE
    /\ \E name \in PairNames, head \in FitHeads, v \in ExactVectors :
          bones = <<[name |-> name \o ".L", parent |-> None,
                     head |-> head, tail |-> IAdd(head, v)],
                    [name |-> name \o ".R", parent |-> None,
                     head |-> MirrorX(head), tail |-> MirrorX(IAdd(head, v))]>>
    /\ matrix_world = Identity
    /\ found = TRUE
    /\ objects = NoObjects
    /\ next_id = 1
    /\ materials = 0
    /\ mesh_parts = << >>
    /\ unified = 0
    /\ raised = None
    /\ runs = 1
    /\ printed = << >>
    /\ active_object = 0
    /\ fitting = << >>

NextPair ==
    \/ LimbCylinder
    \/ HandBox
    \/ FootBox
    \/ FingerMesh

SpecPair == InitPair /\ [][NextPair]_vars

(***************************************************************************)
(* Properties of a generation pass.                                        *)
(***************************************************************************)
\* generate_all_meshes is running or has just returned: mesh_parts holds the
\* primitives of this pass, all of them objects of the scene.
InPass ==
    /\ pc.script = "mesh_auto_fit"
    /\ pc.at \in {"generate_all_meshes", "join_meshes"}

\* generate_all_meshes has ended: it returned, or an exception left it.
PassEnded ==
    /\ pc.script = "mesh_auto_fit"
    /\ \/ pc.at = "join_meshes"
       \/ pc.at = "aborted" /\ raised = "KeyError"

Part(k) == objects[mesh_parts[k]]

\* The pass holds the primitive of call c.
Produced(c) ==
    \E k \in 1..Len(mesh_parts) : Part(k).rule = c.fn /\ Part(k).reads = c.reads

(* C1: when a generation pass has ended it was not aborted, and it holds a *)
(* primitive for exactly the rules whose bones the skeleton holds: a rule  *)
(* naming an absent bone fails alone, whatever the kind of the rule.       *)
C1_BatchIsolation ==
    PassEnded =>
        /\ raised = None
        /\ \A c \in Range(generate_all_meshes) : CallsPresent(c) <=> Produced(c)

(* C2: no primitive of a pass is fitted to a bone whose head equals its    *)
(* tail: such a bone is skipped and nothing is appended to mesh_parts.     *)
C2_DegenerateBoneSkipped ==
    InPass =>
        \A k \in 1..Len(mesh_parts) :
            Len(Part(k).reads) = 1 => Part(k).head # Part(k).tail

SideNames == {".L", ".R"}
ArmBones  == {b \o s : b \in {"UpperArm", "ForeArm", "Hand"}, s \in SideNames}
LegBones  == {b \o s : b \in {"UpperLeg", "LowerLeg", "Foot", "Toe"}, s \in SideNames}
LeftBones == {c.reads[1] : c \in Range(ArmCalls(".L") \o FingerCalls(".L") \o LegCalls(".L"))}

\* The place of a primitive in the order spine, head, arms, fingers, legs,
\* and in the order left, right inside a group.
Group(o) ==
    CASE o.rule \in {"create_torso_cone", "create_pelvis_box"} -> 1
      [] o.rule = "create_head_sphere"                         -> 2
      [] o.reads[1] \in ArmBones                               -> 3
      [] o.rule = "create_finger_mesh"                         -> 4
      [] o.reads[1] \in LegBones                               -> 5

SideRank(o) ==
    IF Group(o) <= 2 THEN 0 ELSE IF o.reads[1] \in LeftBones THEN 1 ELSE 2

(* C7: the primitives of a pass are appended in the order spine, head, arm *)
(* chain per side, finger chains per side, leg chain per side.             *)
C7_SpineHeadArmsFingersLegs ==
    InPass =>
        \A i, j \in 1..Len(mesh_parts) :
            i < j =>
                \/ Group(Part(i)) < Group(Part(j))
                \/ /\ Group(Part(i)) = Group(Part(j))
                   /\ SideRank(Part(i)) <= SideRank(Part(j))

\* Bone a is a proper ancestor of bone b.
RECURSIVE IsAncestor(_, _, _, _)
IsAncestor(bs, a, b, fuel) ==
    LET p == BoneNamed(bs, b).parent
    IN  /\ fuel > 0
        /\ p # None
        /\ HasBone(bs, p)
        /\ (p = a \/ IsAncestor(bs, a, p, fuel - 1))

(* C8: a primitive fitted to a bone is appended before every primitive     *)
(* fitted to a descendant of that bone (parent-before-child order).        *)
C8_AncestorFirst ==
    InPass =>
        \A i, j \in 1..Len(mesh_parts) :
            (\E a \in Range(Part(i).reads), b \in Range(Part(j).reads) :
                IsAncestor(bones, a, b, Len(bones))) => i < j

(***************************************************************************)
(* Properties of the fitting of one bone.                                  *)
(***************************************************************************)
\* The point head + f * (tail - head) of the segment a primitive was fitted to.
OnSegment(o, f) ==
    VAdd(Vec(o.head), VScale(VSub(Vec(o.tail), Vec(o.head)), f))

(* C9: the center of a box is head + direction * length * fraction, the    *)
(* point head + fraction * (tail - head): the head for fraction 0, the     *)
(* tail for fraction 1, linear in between; the hand box uses 0.7, the foot *)
(* box 0.6, and neither is at the midpoint of a bone of non-zero length.   *)
C9_BoxCenterOnSegment ==
    /\ \A id \in DOMAIN objects :
          LET o == objects[id]
          IN  /\ o.rule = "create_hand_box" =>
                    /\ PrimCenter(o) = OnSegment(o, Rat(7, 10))
                    /\ o.head # o.tail => PrimCenter(o) # Facts(o).midpoint
              /\ o.rule = "create_foot_box" =>
                    /\ PrimCenter(o) = OnSegment(o, Rat(6, 10))
                    /\ o.head # o.tail => PrimCenter(o) # Facts(o).midpoint
    /\ pc.script = "fit" =>
          \A k \in 1..Len(bones) :
              LET ends == BoneEnds(bones[k])
                  g == BoneFacts(ends.head, ends.tail)
              IN  /\ BoxCenter(g, RInt(0)) = g.head
                  /\ BoxCenter(g, RInt(1)) = g.tail
                  /\ \A f \in {Rat(1, 4), Rat(1, 2), Rat(3, 4)} :
                        BoxCenter(g, f) = VAdd(g.head, VScale(VSub(g.tail, g.head), f))

C9_Witness ==
    \E id \in DOMAIN objects :
        /\ objects[id].rule = "create_hand_box"
        /\ objects[id].head[1] # objects[id].tail[1]
        /\ objects[id].head[3] # objects[id].tail[3]
        /\ matrix_world = Moved

(* C10: for a bone of non-zero length the rotation given to its cylinder   *)
(* or box maps the axis +Z onto the unit direction of the bone, also when  *)
(* the bone points along +Z (identity) or along -Z (a half turn).          *)
C10_RotationAlignsZ ==
    \A id \in DOMAIN objects :
        LET o == objects[id]
        IN  o.kind \in {"cylinder", "cube"} /\ o.head # o.tail =>
                MApply(PrimRotation(o), ZAxis) = Facts(o).direction

(***************************************************************************)
(* Sizes and rotations of the fitted primitives.                           *)
(***************************************************************************)
\* The radius generate_all_meshes passes for a bone name, in model units.
RuleRadius(bone_name) ==
    LET c == CHOOSE r \in Range(generate_all_meshes) : r.reads = <<bone_name>>
    IN  IF c.fn = "create_finger_mesh" THEN 100 ELSE c.radius

IsCylinderRule(o) == o.rule \in {"create_limb_cylinder", "create_finger_mesh"}

C12_BoxAlignsAsCylinder ==
    \A id \in DOMAIN objects :
        LET o == objects[id]
        IN  o.rule \in {"create_foot_box", "create_limb_cylinder"} /\ o.head # o.tail =>
                FootBoxRotation(Facts(o).direction) = CylinderRotation(Facts(o).direction)

XAxis == <<RInt(1), RInt(0), RInt(0)>>

(* C13: the twist is applied to the hand box only, after the alignment and *)
(* about the bone's own direction, by the one constant angle for Hand.L    *)
(* and Hand.R: the final rotation still maps +Z onto the direction, and    *)
(* the image of the X axis is the aligned X axis turned by the twist angle *)
(* about the direction.  The foot box has the alignment alone, the         *)
(* cylinders their own alignment, the spheres and the cone no rotation.    *)
C13_TwistAfterAlign ==
    \A id \in DOMAIN objects :
        LET o     == objects[id]
            d     == Facts(o).direction
            align == rotation_difference(ZAxis, d)
            final == PrimRotation(o)
        IN  o.head # o.tail /\ o.kind # "joined" =>
                /\ o.rule = "create_hand_box" =>
                      /\ MApply(final, ZAxis) = d
                      /\ VDot(MApply(align, XAxis), MApply(final, XAxis)) = TwistAngle.cos
                      /\ VDot(VCross(MApply(align, XAxis), MApply(final, XAxis)), d)
                            = TwistAngle.sin
                /\ o.rule = "create_foot_box" => final = align
                /\ IsCylinderRule(o) => final = CylinderRotation(d)
                /\ o.kind \in {"sphere", "cone"} => final = IdentityMatrix

C13_Witness ==
    \E id \in DOMAIN objects :
        /\ objects[id].rule = "create_hand_box"
        /\ objects[id].reads = <<"Hand.R">>
        /\ objects[id].head[1] # objects[id].tail[1]
        /\ objects[id].head[3] # objects[id].tail[3]

\* The mirror image in X of a point and of a rotation (M R M, M = diag(-1, 1, 1)).
MirrorPoint(v) == <<RNeg(v[1]), v[2], v[3]>>

MirrorRotation(m) ==
    [i \in 1..3 |-> [j \in 1..3 |-> IF (i = 1) # (j = 1) THEN RNeg(m[i][j]) ELSE m[i][j]]]

\* The rule of generate_all_meshes for a bone name, without the name.
Sizing(bone_name) ==
    LET c == CHOOSE r \in Range(generate_all_meshes) : r.reads = <<bone_name>>
    IN  [fn |-> c.fn, radius |-> c.radius, guarded |-> c.guarded]

PairedBones == ArmBones \cup LegBones
                 \cup {c.reads[1] : c \in Range(FingerCalls(".L") \o FingerCalls(".R"))}

(* C14: the left and the right rule of every paired bone are the same but  *)
(* for the bone name, and the primitives fitted to a left bone and to its  *)
(* mirror image in X have the same dimensions, and centers and rotations   *)
(* that are mirror images in X of each other.                              *)
C14_MirroredPair ==
    /\ \A b \in {"UpperArm", "ForeArm", "Hand", "UpperLeg", "LowerLeg", "Foot", "Toe"}
              \cup {Fingers[f] \o "_" \o Joints[j] : f \in 1..Len(Fingers), j \in 1..Len(Joints)} :
          /\ b \o ".L" \in PairedBones
          /\ b \o ".R" \in PairedBones
          /\ Sizing(b \o ".L") = Sizing(b \o ".R")
    /\ (pc.script = "fit" /\ pc.at = "done" /\ Len(mesh_parts) = 2) =>
          LET l == Part(1)
              r == Part(2)
          IN  l.head # l.tail =>
                /\ r.head = MirrorX(l.head) /\ r.tail = MirrorX(l.tail)
                /\ r.rule = l.rule
                /\ PrimRadius(r) = PrimRadius(l)
                /\ PrimDepth(r) = PrimDepth(l)
                /\ BoxExtents(r) = BoxExtents(l)
                /\ PrimCenter(r) = MirrorPoint(PrimCenter(l))
                /\ PrimRotation(r) = MirrorRotation(PrimRotation(l))

(***************************************************************************)
(* Properties of the pass and of the scene.                                *)
(***************************************************************************)
(* C15: when join_meshes is called every primitive of mesh_parts has its   *)
(* pose (scale, rotation, translation) in its vertex data: none carries a  *)
(* pose in its object transform, the boxes, the cylinders and the spheres  *)
(* alike.                                                                  *)
C15_PoseBakedBeforeJoin ==
    (pc.script = "mesh_auto_fit" /\ pc.at = "join_meshes") =>
        \A k \in 1..Len(mesh_parts) : Part(k).pose = "vertices"

SourceEnds(bs, mw, c) ==
    [head |-> World(mw, BoneNamed(bs, c.reads[1]).head),
     tail |-> World(mw, BoneNamed(bs, c.reads[Len(c.reads)]).tail)]

\* The skeleton bs with the head or the tail of its k-th bone moved.
Nudge == <<100, 0, 0>>

MovedBone(bs, k) ==
    {[bs EXCEPT ![k].head = IAdd(@, Nudge)], [bs EXCEPT ![k].tail = IAdd(@, Nudge)]}

\* The call of generate_all_meshes that made primitive o.
CallOf(o) == CHOOSE c \in Range(generate_all_meshes) : c.fn = o.rule /\ c.reads = o.reads

(* C18: a primitive is a function of the geometry of one bone, its source  *)
(* bone (the bone its rule names first): it is fitted to the endpoints the *)
(* rule reads, and on a skeleton that differs from the present one in the  *)
(* head or tail of one bone other than its source bone the rule reads the  *)
(* same endpoints.                                                         *)
C18_OnlyOwnBone ==
    (pc.script = "mesh_auto_fit" /\ pc.at = "join_meshes") =>
        \A i \in 1..Len(mesh_parts) :
            LET o == Part(i)
                c == CallOf(o)
                own == SourceEnds(bones, matrix_world, c)
            IN  /\ o.head = own.head /\ o.tail = own.tail
                /\ \A k \in 1..Len(bones) :
                      bones[k].name # o.reads[1] =>
                          \A bs \in MovedBone(bones, k) :
                              SourceEnds(bs, matrix_world, c) = own

\* A run of the fitter has ended normally with a mesh.
RunEnded == pc.script = "mesh_auto_fit" /\ pc.at = "done" /\ raised = None /\ unified # 0

(* C19: re-running the fitter on an unchanged skeleton leaves the scene as *)
(* one run does: when a run has ended the scene holds exactly one mesh     *)
(* object, PlayerMesh, parented to the armature and carrying a material,   *)
(* and a run after the first adds no material to the file.                 *)
C19_RerunAddsNothing ==
    /\ [](RunEnded =>
            /\ DOMAIN objects = {unified}
            /\ objects[unified].name = "PlayerMesh"
            /\ objects[unified].parent = "PlayerArmature"
            /\ objects[unified].material # 0)
    /\ [][(pc.script = "mesh_auto_fit" /\ runs >= 2) => materials' = materials]_vars

\* The bones the torso primitive spans: the chain from Spine_01 up to Spine_03.
TorsoSpan == {"Spine_01", "Spine_02", "Spine_03"}

\* The bones primitive o is fitted to.
SourceBones(o) == IF o.rule = "create_torso_cone" THEN TorsoSpan ELSE Range(o.reads)

(* C20: after generate_all_meshes on the skeleton authored by              *)
(* skeleton_generator_clean, every bone of the skeleton is a source bone   *)
(* of some primitive of mesh_parts.                                        *)
C20_EveryBoneFitted ==
    (/\ pc.script = "mesh_auto_fit"
     /\ pc.at = "join_meshes"
     /\ bones = Authored("skeleton_generator_clean")) =>
        \A k \in 1..Len(bones) :
            \E i \in 1..Len(mesh_parts) : bones[k].name \in SourceBones(Part(i))

(***************************************************************************)
(* Two fitting calls run side by side.  A call is the statements of        *)
(* create_limb_cylinder, create_finger_mesh or create_hand_box, one at a   *)
(* time: the host call that adds the primitive and makes it the active     *)
(* object, mesh_obj = bpy.context.active_object, mesh_obj.name = ..., the  *)
(* rotation or the vertex transform of mesh_obj, mesh_parts.append.        *)
(***************************************************************************)
\* An arm whose bones all have a rotation to set (none is parallel to Z).
ConcurrentBones == <<
    [name |-> "ForeArm.L",  parent |-> None,        head |-> <<-2500, 0, 12500>>,
                                                    tail |-> <<-5500, 0, 8500>>],
    [name |-> "Hand.L",     parent |-> "ForeArm.L", head |-> <<-5500, 0, 8500>>,
                                                    tail |-> <<-5500, -1500, 6500>>],
    [name |-> "Index_01.L", parent |-> "Hand.L",    head |-> <<-5500, -1500, 6500>>,
                                                    tail |-> <<-5500, -1800, 6100>>],
    [name |-> "Thumb_01.L", parent |-> "Hand.L",    head |-> <<-5500, -1500, 6500>>,
                                                    tail |-> <<-5200, -1500, 6100>>] >>

ConcurrentCalls ==
    {c \in Range(generate_all_meshes) : c.reads[1] \in BoneNames(ConcurrentBones)}

\* What the host call of rule c adds: a cylinder of the bone's length at its
\* midpoint, or a unit cube at the origin; under the host's default name and
\* with the default rotation.
HostPrimitive(c) ==
    LET ends == BoneEnds(BoneNamed(bones, c.reads[1]))
        cube == c.fn = "create_hand_box"
        o    == MeshObject(IF cube THEN "Cube" ELSE "Cylinder", c.fn,
                           IF cube THEN "cube" ELSE "cylinder", c.reads,
                           ends.head, ends.tail,
                           IF c.fn = "create_finger_mesh" THEN 100 ELSE c.radius,
                           IF cube THEN "vertices" ELSE "object")
    IN  [o EXCEPT !.posed_from = << >>]

InitConcurrent ==
    /\ pc = At("fit", "concurrent", 0)
    /\ call = NoCall
    /\ bones = ConcurrentBones
    /\ bones_dict = << >>
    /\ has_armature = TRUE
    /\ matrix_world = Identity
    /\ found = TRUE
    /\ \E old \in BOOLEAN :
          /\ objects = IF old THEN (1 :> OldMesh) ELSE NoObjects
          /\ next_id = IF old THEN 2 ELSE 1
          /\ materials = IF old THEN 1 ELSE 0
          /\ active_object = IF old THEN 1 ELSE 0
    /\ mesh_parts = << >>
    /\ unified = 0
    /\ raised = None
    /\ runs = 1
    /\ printed = << >>
    /\ \E c1, c2 \in ConcurrentCalls :
          /\ c1 # c2
          /\ fitting = <<[c |-> c1, at |-> "add", mesh_obj |-> 0],
                         [c |-> c2, at |-> "add", mesh_obj |-> 0]>>

\* What a step of a fitting call leaves alone.
CallKept == UNCHANGED <<pc, call, bones, bones_dict, has_armature, matrix_world,
                        found, unified, materials, raised, runs, printed>>

\* bpy.ops.mesh.primitive_cylinder_add(...) / primitive_cube_add(...)
AddPrimitive ==
    \E t \in DOMAIN fitting :
        /\ fitting[t].at = "add"
        /\ objects' = (next_id :> HostPrimitive(fitting[t].c)) @@ objects
        /\ next_id' = next_id + 1
        /\ active_object' = next_id
        /\ fitting' = [fitting EXCEPT ![t].at = "read"]
        /\ UNCHANGED mesh_parts
        /\ CallKept

\* mesh_obj = bpy.context.active_object
ReadActive ==
    \E t \in DOMAIN fitting :
        /\ fitting[t].at = "read"
        /\ fitting' = [fitting EXCEPT ![t].at = "name", ![t].mesh_obj = active_object]
        /\ UNCHANGED <<objects, next_id, active_object, mesh_parts>>
        /\ CallKept

\* mesh_obj.name = f"{bone_name}_Mesh"
NameObject ==
    \E t \in DOMAIN fitting :
        /\ fitting[t].at = "name"
        /\ objects' = [objects EXCEPT ![fitting[t].mesh_obj].name = MeshName(fitting[t].c.reads[1])]
        /\ fitting' = [fitting EXCEPT ![t].at = "pose"]
        /\ UNCHANGED <<next_id, active_object, mesh_parts>>
        /\ CallKept

\* mesh_obj.rotation_axis_angle = ... when the cross product is long enough
\* (cylinders); bm.transform(transform_matrix) on mesh_obj.data (hand box).
\* Either is computed from the bone of the call.
PoseObject ==
    \E t \in DOMAIN fitting :
        /\ fitting[t].at = "pose"
        /\ LET c    == fitting[t].c
               ends == BoneEnds(BoneNamed(bones, c.reads[1]))
               d    == BoneFacts(ends.head, ends.tail).direction
           IN  IF c.fn = "create_hand_box" \/ RLt(AxisThreshold, VLength(VCross(ZAxis, d)))
               THEN objects' = [objects EXCEPT
                                   ![fitting[t].mesh_obj].posed_from = <<ends.head, ends.tail>>]
               ELSE UNCHANGED objects
        /\ fitting' = [fitting EXCEPT ![t].at = "append"]
        /\ UNCHANGED <<next_id, active_object, mesh_parts>>
        /\ CallKept

\* self.mesh_parts.append(mesh_obj)
AppendPart ==
    \E t \in DOMAIN fitting :
        /\ fitting[t].at = "append"
        /\ mesh_parts' = Append(mesh_parts, fitting[t].mesh_obj)
        /\ fitting' = [fitting EXCEPT ![t].at = "done"]
        /\ UNCHANGED <<objects, next_id, active_object>>
        /\ CallKept

NextConcurrent ==
    \/ AddPrimitive
    \/ ReadActive
    \/ NameObject
    \/ PoseObject
    \/ AppendPart

SpecConcurrent == InitConcurrent /\ [][NextConcurrent]_vars

\* Both calls have returned.
CallsReturned == fitting # << >> /\ \A t \in DOMAIN fitting : fitting[t].at = "done"

\* The primitive rule c makes when it runs alone.
FittedAlone(c) ==
    LET o == HostPrimitive(c)
    IN  [o EXCEPT !.name = MeshName(c.reads[1]), !.posed_from = <<o.head, o.tail>>]

(* C16: for every interleaving of the steps of two fitting calls, once     *)
(* both have returned each call has appended a primitive of its own, which *)
(* carries the name, the pose and the geometry of the call's bone, as when *)
(* the call runs alone.                                                    *)
C16_CallsDoNotInterfere ==
    CallsReturned =>
        /\ fitting[1].mesh_obj # fitting[2].mesh_obj
        /\ \A t \in DOMAIN fitting :
              /\ \E k \in 1..Len(mesh_parts) : mesh_parts[k] = fitting[t].mesh_obj
              /\ objects[fitting[t].mesh_obj] = FittedAlone(fitting[t].c)

\* build_complete_skeleton has returned.
SkeletonComplete ==
    pc.script = "blender_character_generator" /\ pc.at \in {"create_detailed_mesh", "done"}

(* C21: after CharacterBuilder.build_complete_skeleton the armature holds  *)
(* at least 55 bones.                                                      *)
C21_AtLeast55Bones == SkeletonComplete => Len(bones) >= 55

(* C22: in a scene without armature a run of the fitter changes nothing:   *)
(* every step keeps the scene's objects and materials, creates no object,  *)
(* leaves mesh_parts empty and no joined mesh, raises nothing, and the run *)
(* goes from find_armature straight to its end.                            *)
C22_NoArmatureNoChange ==
    [][(pc.script = "mesh_auto_fit" /\ ~has_armature) =>
          /\ objects' = objects
          /\ next_id' = next_id
          /\ materials' = materials
          /\ mesh_parts' = << >>
          /\ unified' = 0
          /\ raised' = None
          /\ ~has_armature'
          /\ pc'.at \in {"find_armature", "done"}]_vars

C22_Witness ==
    /\ pc.script = "mesh_auto_fit"
    /\ pc.at = "done"
    /\ ~has_armature
    /\ ~found
    /\ runs = 2
    /\ DOMAIN objects = {1}
    /\ objects[1] = OldMesh
    /\ mesh_parts = << >>

\* The pass has made the primitive of call c (or passed over an absent finger bone).
Served(c) ==
    (c.guarded /\ ~HasBone(bones, c.reads[1]))
        \/ \E i \in 1..Len(mesh_parts) :
              mesh_parts[i] \in DOMAIN objects /\ Part(i).rule = c.fn /\ Part(i).reads = c.reads

(* C23: the steps of a run that found an armature come in order.  A        *)
(* primitive is created only when every mesh object of the scene is a part *)
(* of the current pass (the earlier ones are deleted); join_meshes runs    *)
(* only when every call of generate_all_meshes has made its primitive;     *)
(* setup_material and, after it, parent_to_armature work on the joined     *)
(* mesh; delete_existing_meshes runs before the pass has made any part.    *)
C23_StepsInOrder ==
    [][(pc.script = "mesh_auto_fit" /\ found) =>
          /\ next_id' # next_id =>
                /\ pc.at = "generate_all_meshes"
                /\ DOMAIN objects = Range(mesh_parts)
          /\ pc.at = "delete_existing_meshes" => mesh_parts = << >>
          /\ pc.at = "join_meshes" =>
                /\ \A c \in Range(generate_all_meshes) : Served(c)
                /\ unified' = mesh_parts[1]
                /\ objects'[unified'].kind = "joined"
          /\ materials' # materials =>
                /\ pc.at = "setup_material"
                /\ unified # 0
                /\ objects[unified].kind = "joined"
                /\ objects'[unified].material = materials'
          /\ pc.at = "parent_to_armature" =>
                /\ objects[unified].kind = "joined"
                /\ objects[unified].material = materials
                /\ materials >= 1
                /\ objects'[unified].parent = "PlayerArmature"]_vars

C23_Witness ==
    /\ pc.script = "mesh_auto_fit"
    /\ pc.at = "done"
    /\ found
    /\ runs = 1
    /\ unified = 2
    /\ DOMAIN objects = {2}
    /\ Len(mesh_parts) = 47
    /\ objects[2].parent = "PlayerArmature"
    /\ objects[2].material = 2

\* The names generate_all_meshes looks up without a guard, and the guarded calls
\* whose finger bone the armature does not hold.
UnguardedNames == UNION {Range(c.reads) : c \in {r \in Range(generate_all_meshes) : ~r.guarded}}

AbsentFingers == {c \in Range(generate_all_meshes) : c.guarded /\ ~HasBone(bones, c.reads[1])}

\* The armature holds every bone that is looked up without a guard.
UnguardedPresent == \A name \in UnguardedNames : HasBone(bones, name)

(* C24: the skeletons of both generators hold every bone name that         *)
(* generate_all_meshes looks up without a guard.  On an armature that      *)
(* holds them all the pass raises nothing and leaves generate_all_meshes   *)
(* with 47 primitives in mesh_parts, one less for every finger bone the    *)
(* armature does not hold.                                                 *)
C24_PassCompletes ==
    /\ \A script \in Scripts : UnguardedNames \subseteq BoneNames(Authored(script))
    /\ (pc.script = "mesh_auto_fit" /\ found /\ UnguardedPresent) =>
          /\ raised = None
          /\ pc.at # "aborted"
          /\ pc.at \in {"join_meshes", "setup_material", "parent_to_armature", "done"} =>
                Len(mesh_parts) = 47 - Cardinality(AbsentFingers)

C24_Witness ==
    /\ pc.script = "mesh_auto_fit"
    /\ pc.at = "done"
    /\ found
    /\ UnguardedPresent
    /\ AbsentFingers # {}
    /\ Len(mesh_parts) = 46
    /\ objects[unified].parent = "PlayerArmature"

(***************************************************************************)
(* analyze_skeleton.py: analyze_armature prints the armature as add_bone   *)
(* calls; the printed calls, pasted into build_extracted_skeleton, are     *)
(* replayed by SkeletonGenerator.generate.                                 *)
(***************************************************************************)
\* `t in s` on Python strings: t is a substring of s (case-sensitive).
Contains(s, t) == \E i \in 1..(Len(s) - Len(t) + 1) : SubSeq(s, i, i + Len(t) - 1) = t

ContainsAny(s, ts) == \E t \in ts : Contains(s, t)

\* The keys of bone_groups, in insertion order.
GroupOrder ==
    <<"Spine", "Head", "Arms_L", "Arms_R", "Fingers_L", "Fingers_R", "Legs_L", "Legs_R", "Other">>

ArmWords    == {"Shoulder", "Arm", "Hand"}
FingerWords == {"Thumb", "Index", "Middle", "Ring", "Pinky"}
LegWords    == {"Leg", "Foot", "Toe"}

\* The if/elif chain that categorizes a bone by its name.
GroupOf(name) ==
    IF ContainsAny(name, {"Root", "Spine", "Neck"}) THEN "Spine"
    ELSE IF Contains(name, "Head") THEN "Head"
    ELSE IF ContainsAny(name, ArmWords) /\ Contains(name, ".L") THEN "Arms_L"
    ELSE IF ContainsAny(name, ArmWords) /\ Contains(name, ".R") THEN "Arms_R"
    ELSE IF ContainsAny(name, FingerWords) /\ Contains(name, ".L") THEN "Fingers_L"
    ELSE IF ContainsAny(name, FingerWords) /\ Contains(name, ".R") THEN "Fingers_R"
    ELSE IF ContainsAny(name, LegWords) /\ Contains(name, ".L") THEN "Legs_L"
    ELSE IF ContainsAny(name, LegWords) /\ Contains(name, ".R") THEN "Legs_R"
    ELSE "Other"

\* bone_groups[group] after the categorizing loop: the bones of the group,
\* in the order of armature.data.bones.
bone_groups(bs, group) ==
    LET InGroup(b) == GroupOf(b.name) = group
    IN  SelectSeq(bs, InGroup)

\* The add_bone call printed for one bone: its name, its parent's name or
\* None, and its world-space ends with four decimals (the model's
\* coordinates are whole multiples of 0.0001, which the format keeps).
EmittedCall(mw, b) == Call(b.name, b.parent, World(mw, b.head), World(mw, b.tail))

\* The code-emission loop: group after group, empty groups skipped.
RECURSIVE EmittedFrom(_, _, _)
EmittedFrom(bs, mw, g) ==
    IF g > Len(GroupOrder) THEN << >>
    ELSE LET group == bone_groups(bs, GroupOrder[g])
         IN  [k \in 1..Len(group) |-> EmittedCall(mw, group[k])] \o EmittedFrom(bs, mw, g + 1)

EmittedCalls(bs, mw) == EmittedFrom(bs, mw, 1)

\* Bone names of the small armatures the analysis is run on.
AnalyzeNames == {"Hips", "Spine", "Head", "Hand.L", "Index_01.L"}

\* Armatures of n bones with distinct names, every parent an earlier bone.
RECURSIVE SmallArmatures(_)
SmallArmatures(n) ==
    IF n = 0 THEN {<< >>}
    ELSE {Append(bs, [name |-> name, parent |-> parent,
                      head |-> <<0, 0, 1000 * (n - 1)>>, tail |-> <<0, 0, 1000 * n>>]) :
             bs \in SmallArmatures(n - 1),
             name \in AnalyzeNames,
             parent \in AnalyzeNames \cup {None}}

WellFormed(bs) ==
    \A k \in 1..Len(bs) :
        /\ \A j \in 1..(k - 1) : bs[j].name # bs[k].name
        /\ bs[k].parent # None => \E j \in 1..(k - 1) : bs[j].name = bs[k].parent

\* The armatures analyzed: the two authored skeletons, and every small
\* armature in parent-before-child order.
Analyzed ==
    {Authored(script) : script \in Scripts}
        \cup UNION {{bs \in SmallArmatures(n) : WellFormed(bs)} : n \in 1..MaxBones}

InitAnalyze ==
    /\ pc = At("analyze_skeleton", "analyze_armature", 0)
    /\ call = NoCall
    /\ has_armature \in BOOLEAN
    /\ IF has_armature
       THEN bones \in Analyzed /\ matrix_world \in {Identity, Flattened}
       ELSE bones = << >> /\ matrix_world = Identity
    /\ bones_dict = << >>
    /\ found = FALSE
    /\ objects = NoObjects
    /\ next_id = 1
    /\ mesh_parts = << >>
    /\ unified = 0
    /\ materials = 0
    /\ raised = None
    /\ runs = 0
    /\ printed = << >>
    /\ active_object = 0
    /\ fitting = << >>

AnalyzeKept ==
    UNCHANGED <<found, mesh_parts, unified, runs, fitting, next_id, materials, raised,
                active_object>>

\* analyze_armature: without an armature it prints the error and returns;
\* otherwise it prints one add_bone call per bone and changes nothing.
analyze_armature ==
    /\ pc.script = "analyze_skeleton"
    /\ pc.at = "analyze_armature"
    /\ IF has_armature
       THEN /\ printed' = EmittedCalls(bones, matrix_world)
            /\ pc' = At("analyze_skeleton", "generate", 0)
       ELSE /\ printed' = << >>
            /\ pc' = At("analyze_skeleton", "done", 0)
    /\ UNCHANGED <<call, bones, bones_dict, has_armature, matrix_world, objects>>
    /\ AnalyzeKept

\* SkeletonGenerator.generate with the printed calls as its
\* build_extracted_skeleton: clear_scene and create_armature.
GeneratePrinted ==
    /\ pc.script = "analyze_skeleton"
    /\ pc.at = "generate"
    /\ objects' = NoObjects
    /\ has_armature' = TRUE
    /\ matrix_world' = Identity
    /\ bones' = << >>
    /\ bones_dict' = << >>
    /\ pc' = At("analyze_skeleton", "build", 0)
    /\ UNCHANGED <<call, printed>>
    /\ AnalyzeKept

\* The next printed add_bone call.
ReplayStep ==
    /\ pc.script = "analyze_skeleton"
    /\ pc.at = "build"
    /\ pc.i < Len(printed)
    /\ call' = printed[pc.i + 1]
    /\ bones' = add_bone(bones, call')
    /\ bones_dict' = (call'.name :> unique_name(bones, call'.name)) @@ bones_dict
    /\ pc' = At("analyze_skeleton", "build", pc.i + 1)
    /\ UNCHANGED <<has_armature, matrix_world, objects, printed>>
    /\ AnalyzeKept

\* The pasted builder returns and generate ends.
ReplayDone ==
    /\ pc.script = "analyze_skeleton"
    /\ pc.at = "build"
    /\ pc.i = Len(printed)
    /\ pc' = At("analyze_skeleton", "done", 0)
    /\ UNCHANGED <<call, bones, bones_dict, has_armature, matrix_world, objects, printed>>
    /\ AnalyzeKept

NextAnalyze == analyze_armature \/ GeneratePrinted \/ ReplayStep \/ ReplayDone

SpecAnalyze == InitAnalyze /\ [][NextAnalyze]_vars

\* Every bone of bs is printed exactly once, with its own parent's name.
PrintedOnce(bs) ==
    /\ Len(printed) = Len(bs)
    /\ \A k \in 1..Len(bs) :
          /\ Cardinality({j \in 1..Len(printed) : printed[j].name = bs[k].name}) = 1
          /\ \A j \in 1..Len(printed) :
                printed[j].name = bs[k].name => printed[j].parent_name = bs[k].parent

\* Every printed call that names a parent comes after the call of that parent.
PrintedParentFirst ==
    \A k \in 1..Len(printed) :
        printed[k].parent_name # None =>
            \E j \in 1..(k - 1) : printed[j].name = printed[k].parent_name

(* C25: analyze_armature followed by the skeleton generator is a round     *)
(* trip on the hierarchy: every bone is in exactly one group, the printed  *)
(* add_bone sequence lists every bone after its parent, and replaying it   *)
(* through add_bone gives every bone the parent link it had; for the two   *)
(* authored skeletons and for any armature in parent-before-child order.   *)
C25_RoundTrip ==
    pc.script = "analyze_skeleton" =>
        /\ pc.at = "generate" => PrintedOnce(bones) /\ PrintedParentFirst
        /\ pc.at = "build" =>
              /\ Len(bones) = pc.i
              /\ \A k \in 1..pc.i :
                    /\ bones[k].name = printed[k].name
                    /\ bones[k].parent = printed[k].parent_name

(***************************************************************************)
(* One MeshAutoFitter used for more than one pass: generate() called again *)
(* on the instance main() made.                                            *)
(***************************************************************************)
\* fitter.generate() on the instance of the pass that has ended.  Only
\* __init__ assigns mesh_parts = [], so the list is the one the earlier
\* pass filled; the armature reference is kept until find_armature.
generate_again ==
    /\ pc.script = "mesh_auto_fit"
    /\ pc.at \in {"done", "aborted"}
    /\ runs < MaxRuns
    /\ runs' = runs + 1
    /\ unified' = 0
    /\ raised' = None
    /\ pc' = At(pc.script, "find_armature", 0)
    /\ UNCHANGED <<found, mesh_parts, objects, next_id, materials, active_object>>
    /\ SceneKept

NextReuse == Next \/ generate_again

SpecReuse == Init /\ [][NextReuse]_vars

(* C26: whenever join_meshes is called, mesh_parts holds exactly the       *)
(* primitives created by the current generation pass, each of them a mesh  *)
(* object still in the scene; after any sequence of generate calls, calls  *)
(* on the same MeshAutoFitter instance included.                           *)
C26_PartsAreCurrent ==
    (pc.script = "mesh_auto_fit" /\ pc.at = "join_meshes") =>
        /\ \A k \in 1..Len(mesh_parts) :
              /\ mesh_parts[k] \in DOMAIN objects
              /\ objects[mesh_parts[k]].kind # "joined"
        /\ Range(mesh_parts) = DOMAIN objects
        /\ Cardinality(Range(mesh_parts)) = Len(mesh_parts)
=============================================================================
